---- MODULE Spec2Model ----
(***************************************************************************)
(* Model of vp (src/main.rs): the scanner in main() that turns a plan      *)
(* report read from stdin into a sequence of Action records, and the       *)
(* decoder read_action_header().                                           *)
(*                                                                         *)
(* A line is a sequence of one-character strings, newline included, as     *)
(* read_line returns it.  The String buffers of the program (line,         *)
(* content, reference, ...) are sequences of characters too.               *)
(***************************************************************************)
EXTENDS Integers, Sequences, FiniteSets, TLC

(***************************************************************************)
(* Bounds of the input: at most MaxPre lines of preamble alphabet followed *)
(* by at most MaxBody lines of action-block alphabet.                      *)
(***************************************************************************)
MaxPre == 2
MaxBody == 6

\* bound of the inputs of FairSpec: at most MaxFairLines lines in all
MaxFairLines == 6

(***************************************************************************)
(* String literals of the program.                                         *)
(***************************************************************************)
ActionsStart ==
  <<"T","e","r","r","a","f","o","r","m"," ","w","i","l","l"," ","p","e","r","f","o","r","m"," ",
    "t","h","e"," ","f","o","l","l","o","w","i","n","g"," ","a","c","t","i","o","n","s",":">>

NoChanges ==
  <<"N","o"," ","c","h","a","n","g","e","s","."," ","I","n","f","r","a","s","t","r","u","c","t",
    "u","r","e"," ","i","s"," ","u","p","-","t","o","-","d","a","t","e",".">>

HeaderMark == <<" "," ","#"," ">>

PlanMark == <<"P","l","a","n",":"," ">>

CloseMark == <<" "," "," "," ","}">>

Quote == <<"\"">>

EndQuote == <<"\""," ","{">>

PartSep == <<"\""," ","\"">>

TypLen == 4

ResourceWordLen == 9

(***************************************************************************)
(* The lines the modelled stdin can deliver.                               *)
(***************************************************************************)
LnStart == ActionsStart \o <<"\n">>

LnNoChanges == NoChanges \o <<"\n">>

LnBlank == <<"\n">>

LnHdrA == <<" "," ","#"," ","a"," ","x","\n">>

LnHdrB == <<" "," ","#"," ","b"," ","y","\n">>

LnDetail == <<" "," ","+"," ","r","e","s","o","u","r","c","e"," ","\"","r","\""," ","\"","n","\""," ","{","\n">>

LnAttr == <<" "," "," "," "," "," ","+"," ","i","\n">>

LnClose == <<" "," "," "," ","}","\n">>

LnPlan == <<"P","l","a","n",":"," ","1","\n">>

PreLines == {LnBlank, LnStart, LnNoChanges}

BodyLines == {LnBlank, LnHdrA, LnHdrB, LnDetail, LnAttr, LnClose, LnPlan}

AllLines == PreLines \cup BodyLines

(***************************************************************************)
(* s is an input within the bounds, or the beginning of one: a preamble    *)
(* part, then a body part that begins with a header line and comes after   *)
(* an announcement (of the actions, or of no changes).                     *)
(***************************************************************************)
ValidInput(s) ==
  \E k \in 0..MaxPre :
    /\ k <= Len(s)
    /\ Len(s) - k <= MaxBody
    /\ \A i \in 1..k : s[i] \in PreLines
    /\ \A i \in (k+1)..Len(s) : s[i] \in BodyLines
    /\ Len(s) > k => /\ s[k+1] \in {LnHdrA, LnHdrB}
                     /\ \E i \in 1..k : s[i] \in {LnStart, LnNoChanges}

(***************************************************************************)
(* Inputs that exercise the decoder: after the announcement and a blank    *)
(* line, one header line, one detail line and a close marker.  The header  *)
(* is built from a reference, the detail line from a symbol field, the     *)
(* word after it, and a remainder of a given form around R and N.          *)
(***************************************************************************)
Symbols ==
  {<<" "," ","+"," ">>, <<" "," ","~"," ">>, <<" "," ","-"," ">>,
   <<"-","/","+"," ">>, <<"+","/","-"," ">>, <<"x","x"," "," ">>}

Words ==
  {<<"r","e","s","o","u","r","c","e"," ">>,
   <<"r","e","s","o","u","r","c","e","s"," ">>}

Forms == {"good", "no_open", "no_end", "one_part", "three_parts"}

DetailCases ==
  [sym : Symbols, word : Words, form : {"good"}, R : {<<>>, <<"r">>}, N : {<<>>, <<"n">>}]
    \cup [sym : Symbols, word : Words, form : Forms \ {"good"}, R : {<<"r">>}, N : {<<"n">>}]

Remainder(c) ==
  CASE c.form = "good" -> Quote \o c.R \o PartSep \o c.N \o EndQuote \o <<"\n">>
    [] c.form = "no_open" -> c.R \o PartSep \o c.N \o EndQuote \o <<"\n">>
    [] c.form = "no_end" -> Quote \o c.R \o PartSep \o c.N \o Quote \o <<"\n">>
    [] c.form = "one_part" -> Quote \o c.R \o EndQuote \o <<"\n">>
    [] c.form = "three_parts" -> Quote \o c.R \o PartSep \o c.N \o PartSep \o c.N \o EndQuote \o <<"\n">>

DetailLine(c) == c.sym \o c.word \o Remainder(c)

\* detail lines too short for the symbol field, or for the word after it
LnShortSymbol == <<" "," ","+","\n">>

LnShortWord == <<" "," ","+"," ","r","e","s","\n">>

DecodeDetails == {DetailLine(c) : c \in DetailCases} \cup {LnShortSymbol, LnShortWord}

HeaderCases ==
  [gap : {<<>>, <<" ">>}, ref : {<<"m",".","r">>, <<"k","[","0","]">>}]

HeaderLine(c) == HeaderMark \o c.gap \o c.ref \o <<" ","w","\n">>

\* a header line without a reference token
LnHdrNoRef == <<" "," ","#"," ","\n">>

DecodeHeaders == {HeaderLine(c) : c \in HeaderCases} \cup {LnHdrNoRef}

DecodePrefix == <<LnStart, LnBlank>>

\* the lines that may follow c in a decoder input
DecodeNext(c) ==
  IF c = DecodePrefix THEN DecodeHeaders
  ELSE IF Len(c) = 3 /\ SubSeq(c, 1, 2) = DecodePrefix /\ c[3] \in DecodeHeaders
       THEN DecodeDetails
  ELSE IF Len(c) = 4 /\ SubSeq(c, 1, 2) = DecodePrefix /\ c[3] \in DecodeHeaders
       THEN {LnClose}
  ELSE {}

(***************************************************************************)
(* str helpers of the Rust standard library, as used by the program.       *)
(***************************************************************************)
StartsWith(s, p) == Len(s) >= Len(p) /\ SubSeq(s, 1, Len(p)) = p

EndsWith(s, p) == Len(s) >= Len(p) /\ SubSeq(s, Len(s) - Len(p) + 1, Len(s)) = p

IsWhitespace(c) == c \in {" ", "\n", "\t", "\r"}

\* the non-empty maximal runs of non-whitespace characters, in order
SplitWhitespace(s) ==
  LET starts == {i \in 1..Len(s) :
                   ~IsWhitespace(s[i]) /\ (i = 1 \/ IsWhitespace(s[i - 1]))}
      EndOf(i) == CHOOSE j \in i..Len(s) :
                    /\ \A k \in i..j : ~IsWhitespace(s[k])
                    /\ j = Len(s) \/ IsWhitespace(s[j + 1])
      Nth(k) == CHOOSE i \in starts : Cardinality({x \in starts : x < i}) = k - 1
  IN [k \in 1..Cardinality(starts) |-> SubSeq(s, Nth(k), EndOf(Nth(k)))]

RECURSIVE TrimStart(_)
TrimStart(s) ==
  IF s # <<>> /\ IsWhitespace(Head(s)) THEN TrimStart(Tail(s)) ELSE s

RECURSIVE TrimEnd(_)
TrimEnd(s) ==
  IF s # <<>> /\ IsWhitespace(s[Len(s)]) THEN TrimEnd(SubSeq(s, 1, Len(s) - 1)) ELSE s

Trim(s) == TrimEnd(TrimStart(s))

RECURSIVE Split(_, _)
\* str::split on a non-empty pattern: always at least one part
Split(s, p) ==
  IF \E i \in 1..(Len(s) - Len(p) + 1) : SubSeq(s, i, i + Len(p) - 1) = p
  THEN LET i == CHOOSE i \in 1..(Len(s) - Len(p) + 1) :
                  /\ SubSeq(s, i, i + Len(p) - 1) = p
                  /\ \A j \in 1..(i-1) : SubSeq(s, j, j + Len(p) - 1) # p
       IN <<SubSeq(s, 1, i - 1)>> \o Split(SubSeq(s, i + Len(p), Len(s)), p)
  ELSE <<s>>

(***************************************************************************)
(* ActionType and its Display.                                             *)
(***************************************************************************)
ActionType == {"Create", "Update", "Destroy", "DestroyThenCreate", "DuplicateThenRemove"}

Display(typ) ==
  CASE typ = "Create" -> <<" "," ","+">>
    [] typ = "Update" -> <<" "," ","~">>
    [] typ = "Destroy" -> <<" "," ","-">>
    [] typ = "DestroyThenCreate" -> <<"-","/","+">>
    [] typ = "DuplicateThenRemove" -> <<"+","/","-">>

(***************************************************************************)
(* read_action_header, first half: the reference out of the header line.   *)
(***************************************************************************)
HasReference(hdr) == Len(SplitWhitespace(hdr)) >= 2

\* mutant of Reference: nth(0), the `#` itself
ReferenceFirstToken(hdr) == SplitWhitespace(hdr)[1]

Reference(hdr) == SplitWhitespace(hdr)[2]

\* mutant of DecodeTyp: an unknown symbol is taken for a creation
DecodeTypLenient(typ_text) ==
  CASE typ_text = <<" "," ","+"," ">> -> "Create"
    [] typ_text = <<" "," ","~"," ">> -> "Update"
    [] typ_text = <<" "," ","-"," ">> -> "Destroy"
    [] typ_text = <<"-","/","+"," ">> -> "DestroyThenCreate"
    [] typ_text = <<"+","/","-"," ">> -> "DuplicateThenRemove"
    [] OTHER -> "Create"

\* mutant of DecodeTyp: two symbols share one type
DecodeTypMerged(typ_text) ==
  CASE typ_text = <<" "," ","+"," ">> -> "Create"
    [] typ_text = <<" "," ","~"," ">> -> "Update"
    [] typ_text = <<" "," ","-"," ">> -> "Destroy"
    [] typ_text = <<"-","/","+"," ">> -> "DestroyThenCreate"
    [] typ_text = <<"+","/","-"," ">> -> "DestroyThenCreate"
    [] OTHER -> "none"

DecodeTyp(typ_text) ==
  CASE typ_text = <<" "," ","+"," ">> -> "Create"
    [] typ_text = <<" "," ","~"," ">> -> "Update"
    [] typ_text = <<" "," ","-"," ">> -> "Destroy"
    [] typ_text = <<"-","/","+"," ">> -> "DestroyThenCreate"
    [] typ_text = <<"+","/","-"," ">> -> "DuplicateThenRemove"
    [] OTHER -> "none"

(***************************************************************************)
(* read_action_header, second half: the detail line.  The result is        *)
(* [kind |-> "ok", action |-> ...], [kind |-> "err", msg |-> ...] for a    *)
(* returned Err, or [kind |-> "panic"] where split_at is out of range.     *)
(***************************************************************************)
NoAction == [typ |-> "none", reference |-> <<>>, resource |-> <<>>, name |-> <<>>, content |-> <<>>]

Failure(m) == [kind |-> "err", msg |-> m, action |-> NoAction]

Panic == [kind |-> "panic", msg |-> "split_at", action |-> NoAction]

DecodeDetail(reference, detail) ==
  IF Len(detail) < TypLen THEN Panic
  ELSE LET typ_text == SubSeq(detail, 1, TypLen)
           rest0 == SubSeq(detail, TypLen + 1, Len(detail))
           typ == DecodeTyp(typ_text)
       IN IF typ = "none" THEN Failure("unexpected Action type")
          ELSE IF Len(rest0) < ResourceWordLen THEN Panic
          ELSE LET rest1 == Trim(SubSeq(rest0, ResourceWordLen + 1, Len(rest0)))
               IN IF ~StartsWith(rest1, Quote) THEN Failure("expecting beginning quote")
                  ELSE LET rest2 == Tail(rest1)
                       IN IF ~EndsWith(rest2, EndQuote) THEN Failure("expecting ending quote")
                          ELSE LET rest3 == SubSeq(rest2, 1, Len(rest2) - Len(EndQuote))
                                   parts == Split(rest3, PartSep)
                               IN IF Len(parts) < 2 THEN Failure("expecting name")
                                  ELSE [kind |-> "ok", msg |-> "",
                                        action |-> [typ |-> typ,
                                                    reference |-> reference,
                                                    resource |-> parts[1],
                                                    name |-> parts[2],
                                                    content |-> <<>>]]

(***************************************************************************)
(* State.                                                                  *)
(*   pc          position of main(): "preamble" (line 44), "first_scan"    *)
(*               (line 58), "first_header" (line 65), "loop" (line 68),    *)
(*               "loop_read" (line 82), "ui" (line 89), "done" (returned   *)
(*               or aborted)                                               *)
(*   line        the reused line buffer                                    *)
(*   this_action the in-progress record                                    *)
(*   actions     the output sequence                                       *)
(*   items       the entries handed to the SelectView, (label, content)    *)
(*   result      "none" while running, then "ok", "error" (main returned   *)
(*               Err) or "panic"                                           *)
(*   error       context and cause of the Err                              *)
(*   consumed    the lines read_line has returned so far                   *)
(*   ahead       the next unread line of stdin, <<>> at end of stream      *)
(* History variables, read by the properties only:                         *)
(*   headers     indexes in consumed of the lines read_action_header was   *)
(*               called on                                                 *)
(*   cur         indexes of the header and detail line of this_action      *)
(*   origin      for each element of actions, the indexes of its header,   *)
(*               detail and close-marker line                              *)
(***************************************************************************)
VARIABLES pc, line, this_action, actions, items, result, error,
          consumed, ahead, headers, cur, origin

vars == <<pc, line, this_action, actions, items, result, error,
          consumed, ahead, headers, cur, origin>>

\* what stdin may hold after the lines c: end of stream, or one more line
NextAhead(c) ==
  {<<>>} \cup {<<l>> : l \in {x \in AllLines : ValidInput(Append(c, x))} \cup DecodeNext(c)}

NoError == [context |-> "", cause |-> ""]

Init ==
  /\ pc = "preamble"
  /\ line = <<>>
  /\ this_action = NoAction
  /\ actions = <<>>
  /\ items = <<>>
  /\ result = "none"
  /\ error = NoError
  /\ consumed = <<>>
  /\ ahead \in NextAhead(<<>>)
  /\ headers = {}
  /\ cur = [hdr |-> 0, det |-> 0]
  /\ origin = <<>>

\* read_line returned a line: it is taken off stdin
Consume ==
  /\ ahead # <<>>
  /\ consumed' = Append(consumed, ahead[1])
  /\ ahead' \in NextAhead(consumed')

\* mutant of Push: the element goes to the front
PushFront(vec, elem) == <<elem>> \o vec

\* Vec::push
Push(vec, elem) == Append(vec, elem)

\* String::push_str
PushStr(str, more) == str \o more

\* format!("{} {} {}", act.typ, act.resource, act.name) and the content
Item(act) ==
  [label |-> Display(act.typ) \o <<" ">> \o act.resource \o <<" ">> \o act.name,
   content |-> act.content]

\* the loop of lines 98-100 over `acts`, adding to `select`
RECURSIVE AddItems(_, _)
AddItems(select, acts) ==
  IF acts = <<>> THEN select
  ELSE AddItems(Push(select, Item(Head(acts))), Tail(acts))

\* mutant of Abort: the records appended so far are shown all the same
AbortDelivering(kind, context, cause) ==
  /\ pc' = "done"
  /\ result' = kind
  /\ error' = [context |-> context, cause |-> cause]
  /\ items' = AddItems(<<>>, actions)
  /\ UNCHANGED actions

\* `?` on an Err, or a panic: main ends, nothing reaches the UI
Abort(kind, context, cause) ==
  /\ pc' = "done"
  /\ result' = kind
  /\ error' = [context |-> context, cause |-> cause]
  /\ UNCHANGED <<actions, items>>

(***************************************************************************)
(* main, lines 44-53: skip to actions start or no changes.                 *)
(***************************************************************************)
\* mutant of PreambleEof: end of stream in the preamble returns Ok
PreambleEofReturns ==
  /\ pc = "preamble"
  /\ ahead = <<>>
  /\ pc' = "done"
  /\ result' = "ok"
  /\ UNCHANGED <<line, this_action, actions, items, error,
                 consumed, ahead, headers, cur, origin>>

PreambleEof ==
  /\ pc = "preamble"
  /\ ahead = <<>>
  /\ pc' = "first_scan"
  /\ UNCHANGED <<line, this_action, actions, items, result, error,
                 consumed, ahead, headers, cur, origin>>

PreambleStart ==
  /\ pc = "preamble"
  /\ Consume
  /\ StartsWith(PushStr(line, ahead[1]), ActionsStart)
  /\ line' = PushStr(line, ahead[1])
  /\ pc' = "first_scan"
  /\ UNCHANGED <<this_action, actions, items, result, error, headers, cur, origin>>

\* mutant of PreambleNoChanges: the scan goes on instead of returning
PreambleNoChangesGoesOn ==
  /\ pc = "preamble"
  /\ Consume
  /\ ~StartsWith(PushStr(line, ahead[1]), ActionsStart)
  /\ StartsWith(PushStr(line, ahead[1]), NoChanges)
  /\ line' = PushStr(line, ahead[1])
  /\ pc' = "first_scan"
  /\ UNCHANGED <<this_action, actions, items, result, error, headers, cur, origin>>

PreambleNoChanges ==
  /\ pc = "preamble"
  /\ Consume
  /\ ~StartsWith(PushStr(line, ahead[1]), ActionsStart)
  /\ StartsWith(PushStr(line, ahead[1]), NoChanges)
  /\ line' = PushStr(line, ahead[1])
  /\ pc' = "done"
  /\ result' = "ok"
  /\ UNCHANGED <<this_action, actions, items, error, headers, cur, origin>>

PreambleSkip ==
  /\ pc = "preamble"
  /\ Consume
  /\ ~StartsWith(PushStr(line, ahead[1]), ActionsStart)
  /\ ~StartsWith(PushStr(line, ahead[1]), NoChanges)
  /\ line' = <<>>
  /\ UNCHANGED <<pc, this_action, actions, items, result, error, headers, cur, origin>>

(***************************************************************************)
(* main, lines 58-63: read first action.  The buffer is not cleared        *)
(* between the two loops: the first read appends to what line 44 left.     *)
(***************************************************************************)
FirstScanEof ==
  /\ pc = "first_scan"
  /\ ahead = <<>>
  /\ pc' = "first_header"
  /\ UNCHANGED <<line, this_action, actions, items, result, error,
                 consumed, ahead, headers, cur, origin>>

FirstScanHeader ==
  /\ pc = "first_scan"
  /\ Consume
  /\ StartsWith(PushStr(line, ahead[1]), HeaderMark)
  /\ line' = PushStr(line, ahead[1])
  /\ pc' = "first_header"
  /\ UNCHANGED <<this_action, actions, items, result, error, headers, cur, origin>>

FirstScanSkip ==
  /\ pc = "first_scan"
  /\ Consume
  /\ ~StartsWith(PushStr(line, ahead[1]), HeaderMark)
  /\ line' = <<>>
  /\ UNCHANGED <<pc, this_action, actions, items, result, error, headers, cur, origin>>

\* mutant of ReadActionHeader: the new record inherits the accumulated content
ReadActionHeaderKeepsContent(context, after) ==
  /\ headers' = headers \cup {Len(consumed)}
  /\ IF ~HasReference(line)
     THEN /\ Abort("error", context, "expecting resource reference")
          /\ UNCHANGED <<line, this_action, consumed, ahead, cur, origin>>
     ELSE /\ \/ /\ ahead = <<>>
                /\ line' = <<>>
                /\ UNCHANGED <<consumed, ahead>>
             \/ /\ Consume
                /\ line' = ahead[1]
          /\ LET r == DecodeDetail(Reference(line), line')
             IN IF r.kind = "ok"
                THEN /\ this_action' = [r.action EXCEPT !.content = this_action.content]
                     /\ cur' = [hdr |-> Len(consumed), det |-> Len(consumed')]
                     /\ pc' = after
                     /\ UNCHANGED <<actions, items, result, error, origin>>
                ELSE /\ Abort(IF r.kind = "panic" THEN "panic" ELSE "error", context, r.msg)
                     /\ UNCHANGED <<this_action, cur, origin>>

(***************************************************************************)
(* read_action_header, lines 112-152, called with `context` from line 65   *)
(* (then main goes on at `after`= "loop") or line 69 ("loop_read").        *)
(***************************************************************************)
ReadActionHeader(context, after) ==
  /\ headers' = headers \cup {Len(consumed)}
  /\ IF ~HasReference(line)
     THEN /\ Abort("error", context, "expecting resource reference")
          /\ UNCHANGED <<line, this_action, consumed, ahead, cur, origin>>
     ELSE /\ \/ /\ ahead = <<>>
                /\ line' = <<>>
                /\ UNCHANGED <<consumed, ahead>>
             \/ /\ Consume
                /\ line' = ahead[1]
          /\ LET r == DecodeDetail(Reference(line), line')
             IN IF r.kind = "ok"
                THEN /\ this_action' = r.action
                     /\ cur' = [hdr |-> Len(consumed), det |-> Len(consumed')]
                     /\ pc' = after
                     /\ UNCHANGED <<actions, items, result, error, origin>>
                ELSE /\ Abort(IF r.kind = "panic" THEN "panic" ELSE "error", context, r.msg)
                     /\ UNCHANGED <<this_action, cur, origin>>

FirstHeader ==
  /\ pc = "first_header"
  /\ ReadActionHeader("expect first Action", "loop")

(***************************************************************************)
(* main, lines 68-80: the body of the main loop, one branch per action.    *)
(***************************************************************************)
LoopHeader ==
  /\ pc = "loop"
  /\ StartsWith(line, HeaderMark)
  /\ ReadActionHeader("expect header for Action", "loop_read")

\* mutant of LoopPlan: no break, the loop reads on
LoopPlanGoesOn ==
  /\ pc = "loop"
  /\ ~StartsWith(line, HeaderMark)
  /\ StartsWith(line, PlanMark)
  /\ pc' = "loop_read"
  /\ UNCHANGED <<line, this_action, actions, items, result, error,
                 consumed, ahead, headers, cur, origin>>

LoopPlan ==
  /\ pc = "loop"
  /\ ~StartsWith(line, HeaderMark)
  /\ StartsWith(line, PlanMark)
  /\ pc' = "ui"
  /\ UNCHANGED <<line, this_action, actions, items, result, error,
                 consumed, ahead, headers, cur, origin>>

LoopClose ==
  /\ pc = "loop"
  /\ ~StartsWith(line, HeaderMark)
  /\ ~StartsWith(line, PlanMark)
  /\ StartsWith(line, CloseMark)
  /\ actions' = Push(actions, this_action)
  /\ origin' = Push(origin, [hdr |-> cur.hdr, det |-> cur.det, close |-> Len(consumed)])
  /\ pc' = "loop_read"
  /\ UNCHANGED <<line, this_action, items, result, error, consumed, ahead, headers, cur>>

\* mutant of LoopContent: the record pushed last shares the content buffer
LoopContentAliased ==
  /\ pc = "loop"
  /\ ~StartsWith(line, HeaderMark)
  /\ ~StartsWith(line, PlanMark)
  /\ ~StartsWith(line, CloseMark)
  /\ this_action' = [this_action EXCEPT !.content = PushStr(@, line)]
  /\ actions' = IF actions = <<>> THEN actions
                ELSE [actions EXCEPT ![Len(actions)].content = PushStr(@, line)]
  /\ pc' = "loop_read"
  /\ UNCHANGED <<line, items, result, error, consumed, ahead, headers, cur, origin>>

LoopContent ==
  /\ pc = "loop"
  /\ ~StartsWith(line, HeaderMark)
  /\ ~StartsWith(line, PlanMark)
  /\ ~StartsWith(line, CloseMark)
  /\ this_action' = [this_action EXCEPT !.content = PushStr(@, line)]
  /\ pc' = "loop_read"
  /\ UNCHANGED <<line, actions, items, result, error, consumed, ahead, headers, cur, origin>>

(***************************************************************************)
(* main, lines 82-86: clear the buffer and read the next line.             *)
(***************************************************************************)
\* mutant of LoopReadEof: end of stream before the Plan line is an error
LoopReadEofFails ==
  /\ pc = "loop_read"
  /\ ahead = <<>>
  /\ line' = <<>>
  /\ Abort("error", "expect Plan", "unexpected end of input")
  /\ UNCHANGED <<this_action, consumed, ahead, headers, cur, origin>>

LoopReadEof ==
  /\ pc = "loop_read"
  /\ ahead = <<>>
  /\ line' = <<>>
  /\ pc' = "ui"
  /\ UNCHANGED <<this_action, actions, items, result, error,
                 consumed, ahead, headers, cur, origin>>

\* mutant of LoopReadLine: the buffer is refilled with the line already read
LoopReadLineRereads ==
  /\ pc = "loop_read"
  /\ ahead # <<>>
  /\ line' = consumed[Len(consumed)]
  /\ pc' = "loop"
  /\ UNCHANGED <<this_action, actions, items, result, error,
                 consumed, ahead, headers, cur, origin>>

LoopReadLine ==
  /\ pc = "loop_read"
  /\ Consume
  /\ line' = ahead[1]
  /\ pc' = "loop"
  /\ UNCHANGED <<this_action, actions, items, result, error, headers, cur, origin>>

(***************************************************************************)
(* main, lines 89-109: one SelectView item per record, in order.           *)
(***************************************************************************)
Present ==
  /\ pc = "ui"
  /\ items' = AddItems(<<>>, actions)
  /\ pc' = "done"
  /\ result' = "ok"
  /\ UNCHANGED <<line, this_action, actions, error, consumed, ahead, headers, cur, origin>>

Next ==
  \/ PreambleEof
  \/ PreambleStart
  \/ PreambleNoChanges
  \/ PreambleSkip
  \/ FirstScanEof
  \/ FirstScanHeader
  \/ FirstScanSkip
  \/ FirstHeader
  \/ LoopHeader
  \/ LoopPlan
  \/ LoopClose
  \/ LoopContent
  \/ LoopReadEof
  \/ LoopReadLine
  \/ Present

Spec == Init /\ [][Next]_vars

\* main runs on its own thread and blocks only in read_line, which returns
\* a line or end of stream: an enabled step is eventually taken
\* the input of FairSpec ends after MaxFairLines lines at the latest
Capped == Len(consumed') >= MaxFairLines => ahead' = <<>>

FairNext ==
  \/ PreambleEof /\ Capped
  \/ PreambleStart /\ Capped
  \/ PreambleNoChanges /\ Capped
  \/ PreambleSkip /\ Capped
  \/ FirstScanEof /\ Capped
  \/ FirstScanHeader /\ Capped
  \/ FirstScanSkip /\ Capped
  \/ FirstHeader /\ Capped
  \/ LoopHeader /\ Capped
  \/ LoopPlan /\ Capped
  \/ LoopClose /\ Capped
  \/ LoopContent /\ Capped
  \/ LoopReadEof /\ Capped
  \/ LoopReadLine /\ Capped
  \/ Present /\ Capped

FairSpec == Init /\ [][FairNext]_vars /\ WF_vars(FairNext)

TypeOK ==
  /\ pc \in {"preamble", "first_scan", "first_header", "loop", "loop_read", "ui", "done"}
  /\ result \in {"none", "ok", "error", "panic"}
  /\ Len(origin) = Len(actions)
  /\ ahead \in NextAhead(consumed)

(***************************************************************************)
(* Vocabulary of the properties, over the lines read so far.               *)
(***************************************************************************)
\* the characters of the lines lo..hi of the input whose index is in S
RECURSIVE Flatten(_, _, _)
Flatten(lo, hi, S) ==
  IF lo > hi THEN <<>>
  ELSE (IF lo \in S THEN consumed[lo] ELSE <<>>) \o Flatten(lo + 1, hi, S)

\* the lines strictly between the detail line and the close marker of record i
BodyOf(i) == (origin[i].det + 1)..(origin[i].close - 1)

\* the in-progress record has been appended since it was decoded
IsClosed == Len(origin) > 0 /\ origin[Len(origin)].hdr = cur.hdr

\* the scan ended at line 85: end of stream in the main loop
EofExit == pc \in {"ui", "done"} /\ result \in {"none", "ok"} /\ line = <<>> /\ cur.hdr > 0

\* read_action_header was called at line h and returned a record
DecodesOk(h) ==
  /\ h >= 1
  /\ h < Len(consumed)
  /\ HasReference(consumed[h])
  /\ DecodeDetail(Reference(consumed[h]), consumed[h + 1]).kind = "ok"

\* the headers whose record was closed before the next header
ClosedHeaders ==
  {h \in headers :
     \E c \in (h + 2)..Len(consumed) :
       /\ StartsWith(consumed[c], CloseMark)
       /\ \A k \in (h + 1)..c : k \notin headers}

\* line k is a no-changes line met in the preamble
NoChangesAt(k) ==
  /\ StartsWith(consumed[k], NoChanges)
  /\ \A i \in 1..(k - 1) : ~StartsWith(consumed[i], ActionsStart)

(***************************************************************************)
(* C1: for every record of the output, content is built only from lines    *)
(* read strictly after its detail line and strictly before its close       *)
(* marker: it holds neither the header, nor the detail, nor the close      *)
(* line.                                                                   *)
(***************************************************************************)
C1_ContentExcludesFraming ==
  \A i \in 1..Len(actions) :
    \E S \in SUBSET BodyOf(i) :
      actions[i].content = Flatten(origin[i].det + 1, origin[i].close - 1, S)

(***************************************************************************)
(* C2: for every record of the output, content is exactly the raw lines    *)
(* between its detail line and its close marker, in input order.           *)
(***************************************************************************)
C2_ContentRoundTrip ==
  \A i \in 1..Len(actions) :
    actions[i].content = Flatten(origin[i].det + 1, origin[i].close - 1, BodyOf(i))

(***************************************************************************)
(* C3: when the run ends, the number of records equals the number of       *)
(* headers whose record was closed before the next header or the Plan      *)
(* line: a header contributes at most one record.                          *)
(***************************************************************************)
C3_OneRecordPerClosedHeader ==
  (pc = "done" /\ result = "ok") => Len(actions) = Cardinality(ClosedHeaders)

(***************************************************************************)
(* C4: the output is in the order of the close markers, each record being  *)
(* the one of the header before its close marker, and the SelectView gets  *)
(* the entries in that same order.                                         *)
(***************************************************************************)
C4_InputOrderPreserved ==
  /\ Len(origin) = Len(actions)
  /\ \A i \in 1..Len(origin) :
       /\ StartsWith(consumed[origin[i].close], CloseMark)
       /\ origin[i].hdr < origin[i].close
       /\ actions[i].reference = Reference(consumed[origin[i].hdr])
  /\ \A i, j \in 1..Len(origin) : i < j => origin[i].close < origin[j].close
  /\ (pc = "done" /\ result = "ok") =>
       /\ Len(items) = Len(actions)
       /\ \A i \in 1..Len(items) : items[i] = Item(actions[i])

C4_Witness ==
  /\ pc = "done"
  /\ Len(items) = 2
  /\ actions[1].reference = <<"a">>
  /\ actions[2].reference = <<"b">>
  /\ items[1].content # items[2].content

(***************************************************************************)
(* C5: a no-changes line met in the preamble ends the run with success,    *)
(* no record and no error, and is the last line read.                      *)
(***************************************************************************)
C5_NoChangesEndsRun ==
  \A k \in 1..Len(consumed) :
    NoChangesAt(k) =>
      /\ Len(consumed) = k
      /\ pc = "done"
      /\ result = "ok"
      /\ error = NoError
      /\ actions = <<>>
      /\ items = <<>>
      /\ headers = {}

C5_Witness ==
  /\ pc = "done"
  /\ result = "ok"
  /\ Len(consumed) = 2
  /\ NoChangesAt(2)
  /\ ahead = <<LnHdrA>>

(***************************************************************************)
(* C6: once a call of read_action_header has failed, at the first header   *)
(* or a later one, the run is aborted and the SelectView got no entry.     *)
(***************************************************************************)
C6_DecodeFailureAborts ==
  (\E h \in headers : ~DecodesOk(h)) =>
    /\ pc = "done"
    /\ result \in {"error", "panic"}
    /\ items = <<>>

C6_Witness ==
  /\ result = "error"
  /\ error.context = "expect header for Action"
  /\ Len(actions) >= 1
  /\ items = <<>>

(***************************************************************************)
(* C7: end of stream at the read of the main loop, with at least one       *)
(* record appended, ends the scan without error, and the run then          *)
(* completes with exactly the records appended so far.                     *)
(***************************************************************************)
C7_EofKeepsRecords ==
  [][/\ (pc = "loop_read" /\ ahead = <<>> /\ Len(actions) >= 1) =>
          (pc' = "ui" /\ result' = "none" /\ actions' = actions)
     /\ (pc = "ui" /\ Len(actions) >= 1) =>
          /\ pc' = "done"
          /\ result' = "ok"
          /\ actions' = actions
          /\ Len(items') = Len(actions)
          /\ \A i \in 1..Len(actions) : items'[i] = Item(actions[i])]_vars

C7_Witness ==
  /\ pc = "done"
  /\ result = "ok"
  /\ EofExit
  /\ ahead = <<>>
  /\ Len(items) >= 1
  /\ \A k \in 1..Len(consumed) : ~StartsWith(consumed[k], PlanMark)

(***************************************************************************)
(* C8: end of stream in the main loop while the in-progress record has     *)
(* not been closed is an error.                                            *)
(***************************************************************************)
C8_EofWhileOpenIsError ==
  (pc \in {"ui", "done"} /\ line = <<>> /\ cur.hdr > 0 /\ ~IsClosed) =>
    result \in {"error", "panic"}

(***************************************************************************)
(* C9: a header met in the main loop while the in-progress record is not   *)
(* closed appends nothing, and where the new header decodes, no error is   *)
(* raised and the scan goes on with the new record, its content empty; no  *)
(* record of the output comes from a header that was superseded before     *)
(* its close marker.                                                       *)
(***************************************************************************)
NoSupersededRecord ==
  \A i \in 1..Len(origin) : \A h \in headers : h > origin[i].hdr => h > origin[i].close

\* the step reads the detail line of the header in `line` and decodes it
NewHeaderDecodes ==
  /\ HasReference(line)
  /\ Len(consumed') = Len(consumed) + 1
  /\ DecodeDetail(Reference(line), consumed'[Len(consumed')]).kind = "ok"

C9_UnclosedDroppedOnHeader ==
  [][/\ (pc = "loop" /\ StartsWith(line, HeaderMark) /\ ~IsClosed) =>
          /\ actions' = actions
          /\ origin' = origin
          /\ NewHeaderDecodes =>
               /\ pc' = "loop_read"
               /\ result' = "none"
               /\ error' = NoError
               /\ this_action'.reference = Reference(line)
               /\ this_action'.content = <<>>
               /\ cur'.hdr = Len(consumed)
     /\ NoSupersededRecord']_vars

C9_Witness ==
  /\ pc = "loop_read"
  /\ result = "none"
  /\ Cardinality(headers) = 2
  /\ cur.hdr > 4
  /\ this_action.reference = <<"b">>
  /\ this_action.content = <<>>
  /\ actions = <<>>

(***************************************************************************)
(* C10 as stated: a header line directly followed by a header line does    *)
(* not fail the run, and the second line is decoded as a header.           *)
(***************************************************************************)
HeaderPairAt(h) ==
  /\ h \in headers
  /\ h >= 1
  /\ h < Len(consumed)
  /\ StartsWith(consumed[h], HeaderMark)
  /\ StartsWith(consumed[h + 1], HeaderMark)

C10_HeaderAfterHeaderDrops ==
  \A h \in 1..Len(consumed) :
    HeaderPairAt(h) => result \notin {"error", "panic"} /\ (h + 1) \in headers

(***************************************************************************)
(* C10 amended: a header line directly followed by a header line fails     *)
(* the run: the second line is read as the detail line of the first and    *)
(* rejected as an unexpected action type; it is never decoded as a header. *)
(***************************************************************************)
C10_HeaderAfterHeaderFails ==
  \A h \in 1..Len(consumed) :
    HeaderPairAt(h) =>
      /\ pc = "done"
      /\ result = "error"
      /\ error.cause = "unexpected Action type"
      /\ Len(consumed) = h + 1
      /\ (h + 1) \notin headers
      /\ items = <<>>

C10_Witness ==
  /\ Len(consumed) >= 2
  /\ HeaderPairAt(Len(consumed) - 1)
  /\ consumed[Len(consumed)] = LnHdrB
  /\ result = "error"

(***************************************************************************)
(* More vocabulary: the announcement met in the preamble, and the calls    *)
(* of read_action_header seen from the input.                              *)
(***************************************************************************)
\* line k is the actions-start line that ended the preamble
StartAt(k) ==
  /\ StartsWith(consumed[k], ActionsStart)
  /\ \A i \in 1..(k - 1) :
       ~StartsWith(consumed[i], ActionsStart) /\ ~StartsWith(consumed[i], NoChanges)

\* the symbols of the table, as Display prints them, padded to the field
TableSymbols == {Display(t) \o <<" ">> : t \in ActionType}

(***************************************************************************)
(* C11: when the input ends right after a header line, the decoder         *)
(* returns an error and the run aborts through the error path, not         *)
(* through a crash.                                                        *)
(***************************************************************************)
C11_EofAfterHeaderIsError ==
  \A h \in headers :
    (/\ h >= 1
     /\ h = Len(consumed)
     /\ ahead = <<>>
     /\ StartsWith(consumed[h], HeaderMark)
     /\ HasReference(consumed[h])) =>
      (pc = "done" /\ result = "error")

(***************************************************************************)
(* C12: when the input ends after the actions-start line without any       *)
(* header line, the run fails with an error and delivers no record.        *)
(***************************************************************************)
C12_NoHeaderIsError ==
  \A k \in 1..Len(consumed) :
    (/\ StartAt(k)
     /\ \A j \in (k + 1)..Len(consumed) : ~StartsWith(consumed[j], HeaderMark)
     /\ ahead = <<>>
     /\ pc = "done") =>
      (result = "error" /\ actions = <<>> /\ items = <<>>)

(***************************************************************************)
(* C13: a detail line whose symbol field is not in the table fails the     *)
(* run with the unexpected-action-type error; a symbol of the table is     *)
(* never rejected so, and decodes to the type that Display prints as that  *)
(* symbol, distinct symbols giving distinct types.                         *)
(***************************************************************************)
C13_SymbolTable ==
  /\ \A s1, s2 \in TableSymbols :
       /\ DecodeTyp(s1) \in ActionType
       /\ DecodeTyp(s1) = DecodeTyp(s2) => s1 = s2
  /\ \A h \in headers :
       (h >= 1 /\ h < Len(consumed) /\ Len(consumed[h + 1]) >= TypLen) =>
         LET sym == SubSeq(consumed[h + 1], 1, TypLen)
         IN IF sym \notin TableSymbols
            THEN /\ pc = "done"
                 /\ result = "error"
                 /\ error.cause = "unexpected Action type"
                 /\ items = <<>>
            ELSE /\ (\A g \in headers : g <= h) => error.cause # "unexpected Action type"
                 /\ h = cur.hdr => Display(this_action.typ) \o <<" ">> = sym

C13_Witness ==
  /\ Len(consumed) = 4
  /\ StartsWith(consumed[4], <<"x","x"," "," ">>)
  /\ 3 \in headers
  /\ result = "error"
  /\ error.cause = "unexpected Action type"

(***************************************************************************)
(* C14: every record of the output has a non-empty reference, resource     *)
(* and name.                                                               *)
(***************************************************************************)
C14_FieldsNonEmpty ==
  \A i \in 1..Len(actions) :
    /\ actions[i].reference # <<>>
    /\ actions[i].resource # <<>>
    /\ actions[i].name # <<>>

(***************************************************************************)
(* C15: the first line prefixed with the header mark after the             *)
(* actions-start line is the first header decoded, also when it directly   *)
(* follows the actions-start line.                                         *)
(***************************************************************************)
C15_FirstHeaderTaken ==
  \A k \in 1..Len(consumed) :
    StartAt(k) =>
      \A h \in headers : \A j \in (k + 1)..(h - 1) : ~StartsWith(consumed[j], HeaderMark)

(***************************************************************************)
(* C16: once a Plan line is reached by the main loop, scanning stops: it   *)
(* is the last line read, it is not decoded, appended or pushed, it        *)
(* raises no error, and the output is what was appended before it.         *)
(***************************************************************************)
\* line k is a Plan line read by the main loop (not as a detail line)
PlanAt(k) ==
  /\ StartsWith(consumed[k], PlanMark)
  /\ (k - 1) \notin headers
  /\ \E h \in headers : h + 1 < k

PlanStops ==
  \A k \in 1..Len(consumed) :
    PlanAt(k) =>
      /\ Len(consumed) = k
      /\ pc \in {"loop", "ui", "done"}
      /\ result \in {"none", "ok"}
      /\ error = NoError
      /\ k \notin headers
      /\ \A i \in 1..Len(origin) : origin[i].close < k
      /\ pc = "done" => Len(items) = Len(actions)

C16_PlanEndsScan ==
  [][/\ (pc = "loop" /\ StartsWith(line, PlanMark)) =>
          /\ pc' = "ui"
          /\ UNCHANGED <<actions, this_action, consumed, ahead, result, error>>
     /\ PlanStops']_vars

C16_Witness ==
  /\ pc = "done"
  /\ result = "ok"
  /\ Len(consumed) >= 1
  /\ PlanAt(Len(consumed))
  /\ ahead # <<>>
  /\ Len(items) >= 1

(***************************************************************************)
(* C17: a record of the output never changes, and the output only grows    *)
(* by appending at the end.                                                *)
(***************************************************************************)
C17_AppendedRecordsFrozen ==
  [][/\ Len(actions') \in {Len(actions), Len(actions) + 1}
     /\ SubSeq(actions', 1, Len(actions)) = actions]_vars

C17_Witness ==
  /\ Len(actions) >= 1
  /\ origin[Len(origin)].hdr = cur.hdr
  /\ this_action.content # actions[Len(actions)].content
  /\ Len(consumed) > origin[Len(origin)].close + 1

(***************************************************************************)
(* C18: for a header `  # <ref> ...` and a detail line made of a symbol    *)
(* of the table, 9 further characters and `"R" "N" {`, the decoder         *)
(* returns typ of that symbol, reference = ref, resource = R, name = N     *)
(* and empty content; without the opening quote, the `" {` suffix or the   *)
(* second quoted part it fails.                                            *)
(***************************************************************************)
TypOfSymbol(sym) == CHOOSE t \in ActionType : Display(t) \o <<" ">> = sym

C18_DecoderResult ==
  (Len(consumed) >= 4 /\ SubSeq(consumed, 1, 2) = DecodePrefix /\ 3 \in headers) =>
    \A hc \in HeaderCases : \A dc \in DetailCases :
      (/\ consumed[3] = HeaderLine(hc)
       /\ consumed[4] = DetailLine(dc)
       /\ dc.sym \in TableSymbols
       /\ Len(dc.word) = ResourceWordLen) =>
        CASE dc.form = "good" ->
               /\ cur = [hdr |-> 3, det |-> 4]
               /\ result \in {"none", "ok"}
               /\ this_action.typ = TypOfSymbol(dc.sym)
               /\ this_action.reference = hc.ref
               /\ this_action.resource = dc.R
               /\ this_action.name = dc.N
               /\ (pc = "loop" /\ Len(consumed) = 4) => this_action.content = <<>>
          [] dc.form = "no_open" ->
               /\ pc = "done" /\ result = "error" /\ items = <<>>
               /\ error.cause = "expecting beginning quote"
          [] dc.form = "no_end" ->
               /\ pc = "done" /\ result = "error" /\ items = <<>>
               /\ error.cause = "expecting ending quote"
          [] dc.form = "one_part" ->
               /\ pc = "done" /\ result = "error" /\ items = <<>>
               /\ error.cause = "expecting name"
          [] OTHER -> TRUE

C18_Witness ==
  /\ pc = "loop"
  /\ Len(consumed) = 4
  /\ consumed[3] = HeaderLine([gap |-> <<" ">>, ref |-> <<"k","[","0","]">>])
  /\ this_action = [typ |-> "DuplicateThenRemove", reference |-> <<"k","[","0","]">>,
                    resource |-> <<"r">>, name |-> <<"n">>, content |-> <<>>]

(***************************************************************************)
(* C19: when the input ends in the preamble without an actions-start or    *)
(* no-changes line, the empty input included, the run ends with an error   *)
(* and never with a successful empty result.                               *)
(***************************************************************************)
C19_NoAnnouncementIsError ==
  (/\ ahead = <<>>
   /\ \A k \in 1..Len(consumed) :
        ~StartsWith(consumed[k], ActionsStart) /\ ~StartsWith(consumed[k], NoChanges)) =>
    /\ pc \in {"preamble", "first_scan", "first_header", "done"}
    /\ result \in {"none", "error"}
    /\ pc = "done" =>
         /\ result = "error"
         /\ error = [context |-> "expect first Action", cause |-> "expecting resource reference"]
         /\ actions = <<>>
         /\ items = <<>>

C19_Witness ==
  /\ consumed = <<>>
  /\ pc = "done"
  /\ result = "error"

(***************************************************************************)
(* C20: the scan ends for every input, as a single forward pass: a step    *)
(* that reads takes exactly the next unread line, once, and only while     *)
(* the input has one; a step that does not read moves main forward.        *)
(***************************************************************************)
Rank(p) ==
  CASE p = "preamble" -> 6
    [] p = "first_scan" -> 5
    [] p = "first_header" -> 4
    [] p = "loop" -> 3
    [] p = "loop_read" -> 2
    [] p = "ui" -> 1
    [] p = "done" -> 0

ReadsNext == ahead # <<>> /\ consumed' = Append(consumed, ahead[1])

MovesOn == consumed' = consumed /\ ahead' = ahead /\ Rank(pc') < Rank(pc)

====
